---------------------------- MODULE Spec2Model ----------------------------
(***************************************************************************)
(* A model of sunk's response envelope (src/response.rs) and of the artist *)
(* entities built from its payload (src/collections/artist.rs).            *)
(*                                                                         *)
(* Rust's Option<T> is a sequence of length at most one: None is << >>,    *)
(* Some(x) is << x >>.  A Result<T, E> is a record tagged "Ok" or "Err";   *)
(* a call that unwinds (a failed unwrap) ends in the record tagged "Panic".*)
(***************************************************************************)
EXTENDS Integers, Sequences, FiniteSets, TLC

VARIABLES
    rpc,        \* position of the envelope's owner: "start", "parsed", "done"
    inner,      \* Response.inner, the deserialized InnerResponse
    rcall,      \* the method of Response that consumed the envelope
    rres,       \* what that method returned
    pc,         \* position of the entity's owner: "start", "artist", "similar",
                \* "artist_failed", "similar_failed", "albums_done", "into_artist_done"
    raw,        \* the JSON value handed to serde_json::from_value
    self,       \* the Artist or SimilarArtist deserialized from it
    reply,      \* what Client::get answered to the follow-up request
    result,     \* what the last call on the entity returned
    calls       \* the requests made through the Client, in order

vars == << rpc, inner, rcall, rres, pc, raw, self, reply, result, calls >>
respVars == << rpc, inner, rcall, rres >>
artistVars == << pc, raw, self, reply, result, calls >>

None == << >>
Some(x) == << x >>

Ok(v) == [tag |-> "Ok", val |-> v]
Err(e) == [tag |-> "Err", err |-> e]
Panic == [tag |-> "Panic"]
Pending == [tag |-> "Pending"]

(***************************************************************************)
(* Bounds of the model.                                                    *)
(***************************************************************************)
\* An envelope populates at most this many payload fields.
MaxPopulated == 2

\* The largest value of the unsigned integer type of ids and counts: u64::MAX,
\* scaled down to what TLC enumerates.  Parsing overflows above it.
U64Max == 11

\* The longest album list a response embeds.
MaxAlbums == 2

-----------------------------------------------------------------------------
(***************************************************************************)
(* src/response.rs                                                         *)
(***************************************************************************)

\* The payload fields of InnerResponse, in declaration order.
PayloadFields ==
    << "license", "music_folders", "indexes", "directory", "genres",
       "artists", "artist", "albums", "album", "song", "videos",
       "video_info", "artist_info", "artist_info2", "album_info",
       "similar_songs", "similar_songs2", "top_songs", "album_list",
       "album_list2", "random_songs", "songs_by_genre", "now_playing",
       "starred", "starred2", "search_result", "search_result2",
       "search_result3", "playlists", "playlist", "lyrics", "shares",
       "podcasts", "newest_podcasts", "jukebox_status", "jukebox_playlist",
       "internet_radio_stations", "chat_messages", "user", "users",
       "bookmarks", "play_queue", "scan_status" >>

FieldNames == { PayloadFields[i] : i \in 1..Len(PayloadFields) }

\* A scan with neighbouring entries exchanged.
SwappedScan ==
    << "music_folders", "license", "music_folders", "indexes", "directory",
       "genres", "artist", "artists", "albums", "album", "song", "videos",
       "video_info", "artist_info", "artist_info2", "album_info",
       "similar_songs", "similar_songs2", "top_songs", "album_list",
       "album_list2", "random_songs", "songs_by_genre", "now_playing",
       "starred", "starred2", "search_result", "search_result2",
       "search_result3", "playlists", "playlist", "lyrics", "shares",
       "podcasts", "newest_podcasts", "jukebox_status", "jukebox_playlist",
       "internet_radio_stations", "chat_messages", "user", "users",
       "bookmarks", "scan_status", "play_queue" >>

\* A scan that forgets the last fields of the struct.
ShortScan ==
    << "license", "music_folders", "music_folders", "indexes", "directory",
       "genres", "artists", "artist", "albums", "album", "song", "videos",
       "video_info", "artist_info", "artist_info2", "album_info",
       "similar_songs", "similar_songs2", "top_songs", "album_list",
       "album_list2", "random_songs", "songs_by_genre", "now_playing",
       "starred", "starred2", "search_result", "search_result2",
       "search_result3", "playlists", "playlist", "lyrics", "shares",
       "podcasts", "newest_podcasts", "jukebox_status", "jukebox_playlist",
       "internet_radio_stations", "chat_messages", "user", "users" >>

\* The order in which into_value tries the fields: one maybe!(f) per entry
\* (music_folders is tried twice).
MaybeScan ==
    << "license", "music_folders", "music_folders", "indexes", "directory",
       "genres", "artists", "artist", "albums", "album", "song", "videos",
       "video_info", "artist_info", "artist_info2", "album_info",
       "similar_songs", "similar_songs2", "top_songs", "album_list",
       "album_list2", "random_songs", "songs_by_genre", "now_playing",
       "starred", "starred2", "search_result", "search_result2",
       "search_result3", "playlists", "playlist", "lyrics", "shares",
       "podcasts", "newest_podcasts", "jukebox_status", "jukebox_playlist",
       "internet_radio_stations", "chat_messages", "user", "users",
       "bookmarks", "play_queue", "scan_status" >>

\* The strings a server puts in "status".
Statuses == { "ok", "failed" }

\* ApiError values: a code and a message.
ApiErrors ==
    { [code |-> 70, message |-> "Requested resource not found"],
      [code |-> 40, message |-> "Wrong username or password"] }

\* Opaque serde_json::Value payloads.
Values == { "v1", "v2" }

\* Error::from(ApiError): the API error, code and message kept.
ApiErr(e) == [kind |-> "Api", code |-> e.code, message |-> e.message]

\* Error::Other(msg).
OtherErr(msg) == [kind |-> "Other", msg |-> msg]

\* The message of the terminal error (written with backquotes in the source).
NonExhaustive == "non-exhaustive into_value()"

\* The strictly increasing sequences of at most k positions of PayloadFields:
\* the choices of the fields a response populates.
RECURSIVE Populated(_)
Populated(k) ==
    IF k = 0 THEN { << >> }
    ELSE LET P == Populated(k - 1)
         IN  P \cup { Append(s, j) :
                        <<s, j>> \in { q \in P \X (1..Len(PayloadFields)) :
                                         /\ Len(q[1]) = k - 1
                                         /\ \/ q[1] = << >>
                                            \/ q[1][Len(q[1])] < q[2] } }

\* The payload with the fields at positions s populated with the values vs.
PayloadOf(s, vs) ==
    [f \in FieldNames |->
        IF \E i \in 1..Len(s) : PayloadFields[s[i]] = f
        THEN Some(vs[CHOOSE i \in 1..Len(s) : PayloadFields[s[i]] = f])
        ELSE None]

\* The InnerResponse the derived Deserialize builds: the status and the error
\* are independent fields, and any payload fields may be present.
InnerResponse(st, er, s, vs) ==
    [status |-> st, version |-> "1.14.0", error |-> er,
     payload |-> PayloadOf(s, vs)]

\* The maybe! chain from position i on: the first populated field returns.
RECURSIVE Scan(_, _, _)
Scan(in, order, i) ==
    IF i > Len(order) THEN Err(OtherErr(NonExhaustive))
    ELSE IF in.payload[order[i]] # None THEN Ok(in.payload[order[i]][1])
    ELSE Scan(in, order, i + 1)

\* A resolver that trusts the payload before it looks at the error.
PayloadFirst(in) ==
    LET r == Scan(in, MaybeScan, 1)
    IN  IF r.tag = "Ok" THEN r
        ELSE IF in.error # None THEN Err(ApiErr(in.error[1])) ELSE r

\* A resolver that answers an empty envelope with a null payload.
IntoValueOrNull(in) ==
    IF in.error # None THEN Err(ApiErr(in.error[1]))
    ELSE LET r == Scan(in, MaybeScan, 1)
         IN  IF r.tag = "Ok" THEN r ELSE Ok("null")

\* Response::into_value
into_value(in) ==
    IF in.error # None THEN Err(ApiErr(in.error[1]))
    ELSE Scan(in, MaybeScan, 1)

\* Response::into_error
into_error(in) ==
    IF in.error # None THEN Some(ApiErr(in.error[1])) ELSE None

\* Response::is_ok
is_ok(in) == in.status = "ok"

\* Response::is_err
is_err(in) == in.status = "failed"

NoResponse ==
    [status |-> "", version |-> "", error |-> None,
     payload |-> [f \in FieldNames |-> None]]

RespInit ==
    /\ rpc = "start"
    /\ inner = NoResponse
    /\ rcall = "none"
    /\ rres = Pending

\* serde_json::from_value::<Response>: the envelope is built from the wire.
FromValueResponse ==
    /\ rpc = "start"
    /\ \E st \in Statuses, er \in {None} \cup { Some(e) : e \in ApiErrors },
          s \in Populated(MaxPopulated) :
            \E vs \in [1..Len(s) -> Values] :
                inner' = InnerResponse(st, er, s, vs)
    /\ rpc' = "parsed"
    /\ UNCHANGED << rcall, rres >>

\* A call of into_value, which consumes the response.
IntoValue ==
    /\ rpc = "parsed"
    /\ rres' = into_value(inner)
    /\ rcall' = "into_value"
    /\ rpc' = "done"
    /\ UNCHANGED inner

\* A call of into_error, which consumes the response.
IntoError ==
    /\ rpc = "parsed"
    /\ rres' = [tag |-> "Option", opt |-> into_error(inner)]
    /\ rcall' = "into_error"
    /\ rpc' = "done"
    /\ UNCHANGED inner

-----------------------------------------------------------------------------
(***************************************************************************)
(* src/collections/artist.rs                                               *)
(*                                                                         *)
(* A serde_json::Value is a record tagged by its JSON type; a key missing  *)
(* from an object is the value Absent.  The text of an id or a count is a  *)
(* sequence of characters, so that parsing reads it digit by digit.        *)
(***************************************************************************)
Absent == [t |-> "absent"]
JNull == [t |-> "null"]
JStr(s) == [t |-> "str", s |-> s]
JNum(n) == [t |-> "num", n |-> n]
JArr(xs) == [t |-> "arr", xs |-> xs]
JObj(id, name, coverArt, albumCount, album) ==
    [t |-> "obj", id |-> id, name |-> name, coverArt |-> coverArt,
     albumCount |-> albumCount, album |-> album]

SerdeErr(why) == [kind |-> "Serde", why |-> why]
ParseIntErr(why) == [kind |-> "ParseInt", why |-> why]

Digits == << "0", "1", "2", "3", "4", "5", "6", "7", "8", "9" >>

\* char::to_digit(10): the digit's value, or -1 for any other character.
DigitValue(c) ==
    IF \E d \in 1..Len(Digits) : Digits[d] = c
    THEN (CHOOSE d \in 1..Len(Digits) : Digits[d] = c) - 1
    ELSE -1

\* The digit loop of u64::from_str: checked_mul by the radix, checked_add of
\* the digit, an error at the first character that is no digit.
RECURSIVE ParseDigits(_, _, _)
ParseDigits(s, i, acc) ==
    IF i > Len(s) THEN Ok(acc)
    ELSE LET d == DigitValue(s[i])
         IN  IF d < 0 THEN Err(ParseIntErr("InvalidDigit"))
             ELSE IF acc * Len(Digits) + d > U64Max
                  THEN Err(ParseIntErr("PosOverflow"))
                  ELSE ParseDigits(s, i + 1, acc * Len(Digits) + d)

\* str::parse::<u64>(): an optional leading "+", then at least one digit.
parse(s) ==
    IF s = << >> THEN Err(ParseIntErr("Empty"))
    ELSE LET digits == IF s[1] = "+" THEN Tail(s) ELSE s
         IN  IF digits = << >> THEN Err(ParseIntErr("Empty"))
             ELSE ParseDigits(digits, 1, 0)

\* serde's Deserialize for a String field.
DeString(v) ==
    IF v.t = "str" THEN Ok(v.s)
    ELSE IF v.t = "absent" THEN Err(SerdeErr("missing field"))
    ELSE Err(SerdeErr("invalid type"))

\* serde's Deserialize for a u64 field: a JSON integer in range, nothing else.
DeU64(v) ==
    IF v.t = "num" THEN
        IF v.n >= 0 /\ v.n <= U64Max THEN Ok(v.n)
        ELSE Err(SerdeErr("invalid value"))
    ELSE IF v.t = "absent" THEN Err(SerdeErr("missing field"))
    ELSE Err(SerdeErr("invalid type"))

\* serde's Deserialize for an Option<String> field.
DeOptionString(v) ==
    IF v.t \in {"absent", "null"} THEN Ok(None)
    ELSE IF v.t = "str" THEN Ok(Some(v.s))
    ELSE Err(SerdeErr("invalid type"))

\* Deserialize for Album: the element as it stands, or an error for "al-bad",
\* an element no Album can be built from.
DeAlbum(x) == IF x = "al-bad" THEN Err(SerdeErr("album")) ELSE Ok(x)

\* serde's Deserialize for the #[serde(default)] Vec<Album> field.
DeVecAlbum(v) ==
    IF v.t = "absent" THEN Ok(<< >>)
    ELSE IF v.t = "arr" THEN
        IF \E i \in 1..Len(v.xs) : DeAlbum(v.xs[i]).tag = "Err"
        THEN Err(SerdeErr("album"))
        ELSE Ok([i \in 1..Len(v.xs) |-> DeAlbum(v.xs[i]).val])
    ELSE Err(SerdeErr("invalid type"))

\* A normalizer that makes the declared count agree with the embedded list.
ArtistDeserializeReconciled(v) ==
    IF v.t # "obj" THEN Err(SerdeErr("invalid type"))
    ELSE LET id == DeString(v.id)
             name == DeString(v.name)
             cover == DeOptionString(v.coverArt)
             count == DeU64(v.albumCount)
             album == DeVecAlbum(v.album)
         IN  IF "Err" \in {id.tag, name.tag, cover.tag, count.tag, album.tag}
             THEN Err(SerdeErr("field"))
             ELSE IF parse(id.val).tag = "Err" THEN Panic
             ELSE Ok([type |-> "Artist", id |-> parse(id.val).val,
                      name |-> name.val, cover_id |-> cover.val,
                      album_count |-> Len(album.val), albums |-> album.val])

\* impl Deserialize for Artist: the derived _Artist, then id.parse().unwrap().
ArtistDeserialize(v) ==
    IF v.t # "obj" THEN Err(SerdeErr("invalid type"))
    ELSE LET id == DeString(v.id)
             name == DeString(v.name)
             cover == DeOptionString(v.coverArt)
             count == DeU64(v.albumCount)
             album == DeVecAlbum(v.album)
         IN  IF "Err" \in {id.tag, name.tag, cover.tag, count.tag, album.tag}
             THEN Err(SerdeErr("field"))
             ELSE IF parse(id.val).tag = "Err" THEN Panic
             ELSE Ok([type |-> "Artist", id |-> parse(id.val).val,
                      name |-> name.val, cover_id |-> cover.val,
                      album_count |-> count.val, albums |-> album.val])

\* impl Deserialize for SimilarArtist: the derived _SimilarArtist, then
\* id.parse().unwrap() and album_count.parse().unwrap().
SimilarArtistDeserialize(v) ==
    IF v.t # "obj" THEN Err(SerdeErr("invalid type"))
    ELSE LET id == DeString(v.id)
             name == DeString(v.name)
             cover == DeOptionString(v.coverArt)
             count == DeString(v.albumCount)
         IN  IF "Err" \in {id.tag, name.tag, cover.tag, count.tag}
             THEN Err(SerdeErr("field"))
             ELSE IF parse(id.val).tag = "Err" THEN Panic
             ELSE IF parse(count.val).tag = "Err" THEN Panic
             ELSE Ok([type |-> "SimilarArtist", id |-> parse(id.val).val,
                      name |-> name.val, cover_art |-> cover.val,
                      album_count |-> parse(count.val).val])

\* Error::from(serde_json::Error), applied by the ? of get_artist.
JsonErr(e) == [kind |-> "Json", cause |-> e]

\* The request get_artist sends: getArtist with the query id=<id>.
GetArtistRequest(id) == [op |-> "getArtist", id |-> id]

\* A call's outcome: what it returns and the requests it made on the Client.
Outcome(ret, reqs) == [ret |-> ret, reqs |-> reqs]

\* A get_artist that answers a failed fetch with an empty artist.
GetArtistMasked(id, rep) ==
    IF rep.tag = "Err"
    THEN Outcome(Ok([type |-> "Artist", id |-> id, name |-> "", cover_id |-> None,
                     album_count |-> 0, albums |-> << >>]),
                 << GetArtistRequest(id) >>)
    ELSE LET a == ArtistDeserialize(rep.val)
         IN  Outcome(IF a.tag = "Err" THEN Err(JsonErr(a.err)) ELSE a,
                     << GetArtistRequest(id) >>)

\* fn get_artist(client, id), the Client answering rep.
get_artist(id, rep) ==
    IF rep.tag = "Err" THEN Outcome(rep, << GetArtistRequest(id) >>)
    ELSE LET a == ArtistDeserialize(rep.val)
         IN  Outcome(IF a.tag = "Err" THEN Err(JsonErr(a.err)) ELSE a,
                     << GetArtistRequest(id) >>)

\* An albums that always asks the server.
AlbumsAlwaysFetch(a, rep) ==
    LET g == get_artist(a.id, rep)
    IN  Outcome(IF g.ret.tag = "Ok" THEN Ok(g.ret.val.albums) ELSE g.ret, g.reqs)

\* Artist::albums, the Client answering rep if it is asked.
albums(a, rep) ==
    IF Len(a.albums) # a.album_count THEN
        LET g == get_artist(a.id, rep)
        IN  Outcome(IF g.ret.tag = "Ok" THEN Ok(g.ret.val.albums) ELSE g.ret,
                    g.reqs)
    ELSE Outcome(Ok(a.albums), << >>)

\* SimilarArtist::into_artist, the Client answering rep.
into_artist(a, rep) == get_artist(a.id, rep)

RECURSIVE DecimalString(_)
\* The decimal text of n, as the server writes a number into a string.
DecimalString(n) ==
    IF n < Len(Digits) THEN << Digits[n + 1] >>
    ELSE Append(DecimalString(n \div Len(Digits)), Digits[(n % Len(Digits)) + 1])

\* Texts that are no decimal number of the integer type.
MalformedTexts ==
    { << "a", "b", "c" >>, << >>, << "-", "1" >>, << "1", ".", "5" >>,
      DecimalString(U64Max + 1) }

\* Texts u64::from_str accepts besides the plain decimal ones.
LenientTexts == { << "+", "1" >>, << "0", "1" >> }

\* What a server may send as an id or as a count.
WideNumberValues ==
    { JStr(DecimalString(n)) : n \in 0..U64Max }
        \cup { JStr(x) : x \in MalformedTexts \cup LenientTexts }
        \cup { JNum(n) : n \in (0 - 1)..(U64Max + 1) }
        \cup { Absent, JNull }

NameValues == { JStr("Misteur Valaire"), Absent }
CoverValues == { JStr("ar-1"), Absent }

\* The album keys normalization is tried on.
WideAlbumValues == { Absent, JNull, JArr(<< "al-1" >>) }

AlbumLists ==
    { JArr(xs) : xs \in UNION { [1..n -> {"al-1", "al-2"}] : n \in 0..MaxAlbums } }
        \cup { Absent, JArr(<< "al-bad" >>) }

\* The artists the accessor calls are tried on, and the artists a server
\* answers a getArtist request with.
ArtistValues ==
    { JObj(id, JStr("Misteur Valaire"), JStr("ar-1"), count, album) :
        id \in { JStr(<< "1" >>), JStr(<< "7" >>), JStr(<< "a", "b", "c" >>), JNum(1) },
        count \in { JNum(n) : n \in 0..MaxAlbums } \cup { JStr(<< "1" >>) },
        album \in AlbumLists }

SimilarArtistValues ==
    { JObj(id, JStr("Misteur Valaire"), cover, count, Absent) :
        id \in { JStr(<< "1" >>), JStr(<< "7" >>), JStr(<< "a", "b", "c" >>), JNum(1) },
        cover \in CoverValues,
        count \in { JStr(<< "0" >>), JStr(<< "1" >>), JStr(<< "x" >>), JNum(1) } }

\* The errors Client::get returns: the server's API error (70 is "not found"),
\* or a failure of the connection.
NotFound == ApiErr([code |-> 70, message |-> "Requested resource not found"])
ClientErrors ==
    { NotFound,
      ApiErr([code |-> 40, message |-> "Wrong username or password"]),
      [kind |-> "Connection"] }

\* What Client::get("getArtist", ..) returns.
Replies ==
    { Err(e) : e \in ClientErrors } \cup { Ok(v) : v \in ArtistValues \cup {JNull} }

ArtistIdle ==
    /\ pc = "start"
    /\ raw = None
    /\ self = None
    /\ reply = None
    /\ result = Pending
    /\ calls = << >>

\* serde_json::from_value::<Artist>(v)
FromValueArtist(v) ==
    /\ pc = "start"
    /\ raw' = Some(v)
    /\ LET r == ArtistDeserialize(v)
       IN  IF r.tag = "Ok"
           THEN self' = Some(r.val) /\ pc' = "artist" /\ UNCHANGED result
           ELSE result' = r /\ pc' = "artist_failed" /\ UNCHANGED self
    /\ UNCHANGED << reply, calls >>

\* serde_json::from_value::<SimilarArtist>(v)
FromValueSimilarArtist(v) ==
    /\ pc = "start"
    /\ raw' = Some(v)
    /\ LET r == SimilarArtistDeserialize(v)
       IN  IF r.tag = "Ok"
           THEN self' = Some(r.val) /\ pc' = "similar" /\ UNCHANGED result
           ELSE result' = r /\ pc' = "similar_failed" /\ UNCHANGED self
    /\ UNCHANGED << reply, calls >>

\* A call of Artist::albums; rep is the Client's answer, should it be asked.
Albums ==
    /\ pc = "artist"
    /\ \E rep \in Replies :
        LET o == albums(self[1], rep)
        IN  /\ result' = o.ret
            /\ calls' = calls \o o.reqs
            /\ reply' = IF o.reqs = << >> THEN None ELSE Some(rep)
    /\ pc' = "albums_done"
    /\ UNCHANGED << raw, self >>

\* A call of SimilarArtist::into_artist; rep is the Client's answer.
IntoArtist ==
    /\ pc = "similar"
    /\ \E rep \in Replies :
        LET o == into_artist(self[1], rep)
        IN  /\ result' = o.ret
            /\ calls' = calls \o o.reqs
            /\ reply' = IF o.reqs = << >> THEN None ELSE Some(rep)
    /\ pc' = "into_artist_done"
    /\ UNCHANGED << raw, self >>

RespNext ==
    \/ FromValueResponse /\ UNCHANGED artistVars
    \/ IntoValue /\ UNCHANGED artistVars
    \/ IntoError /\ UNCHANGED artistVars

\* The guard pc = "start" of the deserializing actions is repeated before the
\* quantifier, so that no input is enumerated once the entity is built.
NormalizeNext ==
    \/ /\ pc = "start"
       /\ \E id \in WideNumberValues, name \in NameValues, cover \in CoverValues,
             count \in WideNumberValues, album \in WideAlbumValues :
               FromValueArtist(JObj(id, name, cover, count, album))
       /\ UNCHANGED respVars
    \/ /\ pc = "start"
       /\ \E id \in WideNumberValues, name \in NameValues, cover \in CoverValues,
             count \in WideNumberValues :
               FromValueSimilarArtist(JObj(id, name, cover, count, Absent))
       /\ UNCHANGED respVars

ArtistNext ==
    \/ /\ pc = "start"
       /\ \E v \in ArtistValues \cup {JNull} : FromValueArtist(v)
       /\ UNCHANGED respVars
    \/ /\ pc = "start"
       /\ \E v \in SimilarArtistValues : FromValueSimilarArtist(v)
       /\ UNCHANGED respVars
    \/ Albums /\ UNCHANGED respVars
    \/ IntoArtist /\ UNCHANGED respVars

Init == RespInit /\ ArtistIdle

\* One run exercises one component: the envelope, or an entity.
Next ==
    \/ pc = "start" /\ RespNext
    \/ rpc = "start" /\ NormalizeNext
    \/ rpc = "start" /\ ArtistNext

\* The envelope: deserialized, then consumed by one of its methods.
SpecResponse == Init /\ [][RespNext]_vars

\* Normalization alone, over the wide range of ids and counts.
SpecNormalize == Init /\ [][NormalizeNext]_vars

\* An entity is deserialized, then one accessor is called on it.
SpecArtist == Init /\ [][ArtistNext]_vars

Spec == Init /\ [][Next]_vars

-----------------------------------------------------------------------------
(***************************************************************************)
(* Properties of Response::into_value, checked under SpecResponse.         *)
(***************************************************************************)
IntoValueDone == rpc = "done" /\ rcall = "into_value"

PopulatedFields == { f \in FieldNames : inner.payload[f] # None }

\* The populated field that comes first in the declaration order.
FirstPopulated ==
    PayloadFields[CHOOSE i \in 1..Len(PayloadFields) :
                    /\ inner.payload[PayloadFields[i]] # None
                    /\ \A j \in 1..(i - 1) : inner.payload[PayloadFields[j]] = None]

ReturnsApiErrorOf(e) ==
    /\ rres.tag = "Err"
    /\ rres.err.kind = "Api"
    /\ rres.err.code = e.code
    /\ rres.err.message = e.message

ReturnsValue(v) == rres.tag = "Ok" /\ rres.val = v

\* C1, as stated: for every envelope whose status is "failed", into_value
\* returns the Api error built from the embedded error, never a payload value.
C1_FailedStatusReturnsApiError ==
    (IntoValueDone /\ is_err(inner)) =>
        (inner.error # None /\ ReturnsApiErrorOf(inner.error[1]))

\* C1, amended: for every envelope whose status is "failed" and whose error
\* object is present, into_value returns the Api error with the embedded code
\* and message, whatever payload fields are populated.
C1_FailedWithErrorReturnsApiError ==
    (IntoValueDone /\ is_err(inner) /\ inner.error # None) =>
        ReturnsApiErrorOf(inner.error[1])

C1_Witness ==
    /\ IntoValueDone
    /\ is_err(inner)
    /\ inner.error # None
    /\ PopulatedFields # {}
    /\ rres.tag = "Err"

\* C2, as stated: for every envelope with status "ok" and exactly one populated
\* payload field, into_value returns Ok with that field's value.
C2_OkSingleFieldReturned ==
    (IntoValueDone /\ is_ok(inner) /\ Cardinality(PopulatedFields) = 1) =>
        ReturnsValue(inner.payload[FirstPopulated][1])

\* C2, amended: for every envelope with status "ok", no error object and exactly
\* one populated payload field (any field of the struct), into_value returns Ok
\* with that field's value.
C2_OkNoErrorSingleFieldReturned ==
    (/\ IntoValueDone
     /\ is_ok(inner)
     /\ inner.error = None
     /\ Cardinality(PopulatedFields) = 1) =>
        \A f \in PopulatedFields : ReturnsValue(inner.payload[f][1])

C2_Witness ==
    /\ IntoValueDone
    /\ is_ok(inner)
    /\ inner.error = None
    /\ PopulatedFields = { "scan_status" }
    /\ rres = Ok("v2")

\* C3, as stated: for an envelope with status "ok" and no populated payload
\* field, into_value returns the "no known payload" error, never Ok.
C3_OkEmptyIsUnrecognized ==
    (IntoValueDone /\ is_ok(inner) /\ PopulatedFields = {}) =>
        (rres.tag = "Err" /\ rres.err.kind = "Other"
            /\ rres.err.msg = NonExhaustive)

\* C3, amended: for an envelope with status "ok", no error object and no
\* populated payload field, into_value returns the "no known payload" error
\* (Error::Other), never Ok.
C3_OkNoErrorEmptyIsUnrecognized ==
    (IntoValueDone /\ is_ok(inner) /\ inner.error = None /\ PopulatedFields = {}) =>
        (rres.tag = "Err" /\ rres.err.kind = "Other"
            /\ rres.err.msg = NonExhaustive)

C3_Witness ==
    /\ IntoValueDone
    /\ is_ok(inner)
    /\ inner.error = None
    /\ PopulatedFields = {}
    /\ rres.tag = "Err"

\* C4, as stated: when the status is "ok" and two or more payload fields are
\* populated, into_value returns the value of the field that comes first in the
\* canonical order (the declaration order of the struct).
C4_OkFirstFieldWins ==
    (IntoValueDone /\ is_ok(inner) /\ Cardinality(PopulatedFields) >= 2) =>
        ReturnsValue(inner.payload[FirstPopulated][1])

\* C4, amended: when the status is "ok", no error object is present and two or
\* more payload fields are populated, into_value returns the value of the field
\* that comes first in the canonical order.
C4_OkNoErrorFirstFieldWins ==
    (/\ IntoValueDone
     /\ is_ok(inner)
     /\ inner.error = None
     /\ Cardinality(PopulatedFields) >= 2) =>
        ReturnsValue(inner.payload[FirstPopulated][1])

C4_Witness ==
    /\ IntoValueDone
    /\ is_ok(inner)
    /\ inner.error = None
    /\ PopulatedFields = { "play_queue", "scan_status" }
    /\ inner.payload["play_queue"] = Some("v1")
    /\ inner.payload["scan_status"] = Some("v2")
    /\ rres = Ok("v1")

-----------------------------------------------------------------------------
(***************************************************************************)
(* Properties of normalization, checked under SpecNormalize.               *)
(***************************************************************************)
Parsed == raw # None /\ raw[1].t = "obj"

\* A field that is present as text and is no non-negative integer.
Unparseable(v) == v.t = "str" /\ parse(v.s).tag = "Err"

\* A field that is the native number n or the decimal text of n.
IsNumberOrText(v) ==
    \/ v.t = "num" /\ v.n \in 0..U64Max
    \/ v.t = "str" /\ \E n \in 0..U64Max : v.s = DecimalString(n)

ValueOf(v) ==
    IF v.t = "num" THEN v.n ELSE CHOOSE n \in 0..U64Max : v.s = DecimalString(n)

\* C7: normalizing an entity whose id or count is present but is no
\* non-negative integer fails with an error returned to the caller: it neither
\* yields an entity nor crashes.
C7_MalformedNumberIsReturnedError ==
    (Parsed /\ (Unparseable(raw[1].id) \/ Unparseable(raw[1].albumCount))) =>
        (pc \in {"artist_failed", "similar_failed"} /\ result.tag = "Err")

\* C8: an entity whose id and count are each the native number n or the
\* decimal text of n, for n in the range of the integer type, normalizes, and
\* to the values n.
C8_NumberAndTextNormalizeAlike ==
    (/\ Parsed
     /\ IsNumberOrText(raw[1].id)
     /\ IsNumberOrText(raw[1].albumCount)
     /\ raw[1].name.t = "str"
     /\ raw[1].album.t \in {"absent", "arr"}) =>
        /\ self # None
        /\ self[1].id = ValueOf(raw[1].id)
        /\ self[1].album_count = ValueOf(raw[1].albumCount)

-----------------------------------------------------------------------------
(***************************************************************************)
(* Properties of the accessors of Artist and SimilarArtist, checked under  *)
(* SpecArtist.                                                             *)
(***************************************************************************)
Complete(a) == Len(a.albums) = a.album_count

\* C5: albums on an artist whose embedded list differs in length from
\* album_count makes exactly one getArtist request for the artist's id and
\* returns the albums embedded in the answer; if the request or the decoding of
\* the answer fails, the call returns the error and no albums.
C5_IncompleteRefetchesOrReturnsError ==
    (pc = "albums_done" /\ ~Complete(self[1])) =>
        /\ calls = << GetArtistRequest(self[1].id) >>
        /\ reply # None
        /\ IF reply[1].tag = "Ok" /\ ArtistDeserialize(reply[1].val).tag = "Ok"
           THEN /\ result.tag = "Ok"
                /\ result.val = ArtistDeserialize(reply[1].val).val.albums
           ELSE result.tag = "Err"

\* C6: albums on an artist whose embedded list is as long as album_count
\* returns the embedded list, the elements received in the order received, and
\* makes no request.
C6_CompleteReturnsEmbedded ==
    (pc = "albums_done" /\ Complete(self[1])) =>
        /\ result.tag = "Ok"
        /\ result.val = self[1].albums
        /\ result.val = DeVecAlbum(raw[1].album).val
        /\ calls = << >>
        /\ reply = None

C6_Witness ==
    /\ pc = "albums_done"
    /\ Complete(self[1])
    /\ raw[1].album = JArr(<< "al-2", "al-1" >>)
    /\ result = Ok(<< "al-2", "al-1" >>)
    /\ calls = << >>

\* C9: deserializing an Artist makes no request, also when the embedded list
\* differs in length from album_count; the list and the count are stored as
\* received, and a request is made only by a later call of an accessor.
C9_DeserializeIsLazy ==
    /\ pc \in {"start", "artist", "similar", "artist_failed", "similar_failed"} =>
            (calls = << >> /\ reply = None)
    /\ pc = "artist" =>
            /\ self[1].albums = DeVecAlbum(raw[1].album).val
            /\ self[1].album_count = raw[1].albumCount.n
    /\ calls # << >> => pc \in {"albums_done", "into_artist_done"}

C9_Witness ==
    /\ pc = "artist"
    /\ ~Complete(self[1])
    /\ Len(self[1].albums) = 1
    /\ calls = << >>

\* C10: into_artist makes exactly one getArtist request, for the similar
\* artist's own id, and returns the Artist normalized from the answer; an error
\* of the request, such as the server knowing no such id, is returned as it is,
\* never replaced by an Artist.
C10_IntoArtistFetchesOnce ==
    pc = "into_artist_done" =>
        /\ self[1].id = parse(raw[1].id.s).val
        /\ calls = << GetArtistRequest(self[1].id) >>
        /\ reply # None
        /\ reply[1].tag = "Err" => result = reply[1]
        /\ result.tag = "Ok" =>
                /\ reply[1].tag = "Ok"
                /\ ArtistDeserialize(reply[1].val).tag = "Ok"
                /\ result.val = ArtistDeserialize(reply[1].val).val
        /\ (reply[1].tag = "Ok" /\ ArtistDeserialize(reply[1].val).tag = "Ok") =>
                result.tag = "Ok"

C10_Witness ==
    /\ pc = "into_artist_done"
    /\ self[1].id = 7
    /\ calls = << GetArtistRequest(7) >>
    /\ reply = Some(Err(NotFound))
    /\ result = Err(NotFound)

=============================================================================
